---- MODULE Spec2Model ----
(***************************************************************************)
(* Model of the chat SSE relay: the session store (session_store.py), the  *)
(* text and audio event sources (openai_client.py, voice_client.py), the   *)
(* retry wrapper (retry.py) and the stream orchestration of main.py        *)
(* (stream_generator, stream_with_voice, chat_stream_post,                 *)
(* chat_stream_get).                                                       *)
(*                                                                         *)
(* Specifications: Spec (one POST request at a time), SpecStore (the store *)
(* on its own), SpecConv (the handler on a store with history), SpecRetry  *)
(* (failing stream creation), SpecNorm (stream_generator on any iterable), *)
(* SpecDelta (stream_generator on delta events), SpecGet (a POST request   *)
(* and the same request as GET), SpecVoice (the voice client in a changing *)
(* environment), SpecPair (two requests on one session at the same time),  *)
(* SpecSession (requests on one session, one after the other) and          *)
(* SpecCancel (a request whose consumer may go away).                      *)
(***************************************************************************)
EXTENDS Integers, Sequences, FiniteSets, TLC

VARIABLES
    store,        \* SessionStore.store: session key -> [messages, ts]
    max_rounds,   \* SessionStore.max_rounds
    ttl_seconds,  \* SessionStore.ttl_seconds
    now,          \* time.time()
    run,          \* per key: the messages appended to it since its history last restarted
    last,         \* the last call made on the store: what it found and what it returned
    env,          \* process environment (os.environ)
    client,       \* the OpenAIClient built when the service starts
    voice_client, \* the VoiceClient built when the service starts
    nreq,         \* number of requests received so far (source of request ids)
    pc,           \* per request slot: position of the request
    req,          \* per slot: the request (ids, body, voice header and query parameter)
    conversation, \* per slot: the message list handed to the text source
    stream,       \* per slot: state of the text event source
    audio,        \* per slot: state of the audio event source
    wire,         \* per slot: the SSE frames written so far
    appended,     \* per slot: end-of-request appends done by the request
    snap,         \* per slot: history of the request's key when its stream was opened
    pre,          \* per slot: the record of the request's key as the request found it
    pulls         \* per slot: the chunks the consumer of the response has asked for

storeVars == <<store, max_rounds, ttl_seconds, now, run, last>>

reqVars == <<env, client, voice_client, nreq, pc, req, conversation, stream, audio, wire, appended, snap, pre, pulls>>

vars == <<store, max_rounds, ttl_seconds, now, run, last,
          env, client, voice_client, nreq, pc, req, conversation, stream, audio, wire, appended, snap, pre, pulls>>

----------------------------------------------------------------------------
(* Bounds of the model *)

MaxRounds == 1      \* max_rounds is drawn from 0..MaxRounds
MaxTtl == 1         \* ttl_seconds is drawn from 1..MaxTtl
MaxTime == 2        \* the clock runs 0..MaxTime
MaxStored == 4      \* no list handed to the store is longer than this

None == "<None>"

----------------------------------------------------------------------------
(* Messages: {"role": ..., "content": [{"type": "text", "text": ...}]} *)

Message(role, text) == [role |-> role, content |-> <<[type |-> "text", text |-> text]>>]

UserMsg == Message("user", "q")

AssistantPlaceholder == Message("assistant", "(stream reply sent)")

Msgs == {UserMsg, AssistantPlaceholder}

Keys == {"s1", "s2"}

----------------------------------------------------------------------------
(* Python list slicing xs[-n:], for n >= 0.  -0 is 0, so xs[-0:] is xs[0:],  *)
(* the whole list.                                                          *)

SliceLast(xs, n) ==
    IF n = 0 \/ n >= Len(xs) THEN xs
    ELSE SubSeq(xs, Len(xs) - n + 1, Len(xs))

(* the window rule of append and set *)
Trim(messages, rounds) ==
    IF Len(messages) > rounds * 2 THEN SliceLast(messages, rounds * 2) ELSE messages

(* an expiry test that also drops a record whose age equals the TTL *)
_is_expired_inclusive(ts, t, ttl) == (t - ts) >= ttl

_is_expired(ts, t, ttl) == (t - ts) > ttl

EmptyStore == [k \in {} |-> None]

Del(st, key) == [k \in (DOMAIN st) \ {key} |-> st[k]]

Put(st, key, rec) == [k \in (DOMAIN st) \cup {key} |-> IF k = key THEN rec ELSE st[k]]

(* a get that takes the record out of the store (dict.pop) *)
StoreGetPopping(st, key, t, ttl) ==
    IF key \notin DOMAIN st THEN [ret |-> <<>>, store |-> st]
    ELSE IF _is_expired(st[key].ts, t, ttl) THEN [ret |-> <<>>, store |-> Del(st, key)]
    ELSE [ret |-> st[key].messages, store |-> Del(st, key)]

(* a get that refreshes the TTL of the record it reads *)
StoreGetTouching(st, key, t, ttl) ==
    IF key \notin DOMAIN st THEN [ret |-> <<>>, store |-> st]
    ELSE IF _is_expired(st[key].ts, t, ttl) THEN [ret |-> <<>>, store |-> Del(st, key)]
    ELSE [ret |-> st[key].messages,
          store |-> Put(st, key, [messages |-> st[key].messages, ts |-> t])]

(* SessionStore.get: the returned list and the store after the read *)
StoreGet(st, key, t, ttl) ==
    IF key \notin DOMAIN st THEN [ret |-> <<>>, store |-> st]
    ELSE IF _is_expired(st[key].ts, t, ttl) THEN [ret |-> <<>>, store |-> Del(st, key)]
    ELSE [ret |-> st[key].messages, store |-> st]

(* SessionStore.append *)
StoreAppend(st, key, message, t, ttl, rounds) ==
    LET got == StoreGet(st, key, t, ttl)
        messages == Append(got.ret, message)
    IN Put(got.store, key, [messages |-> Trim(messages, rounds), ts |-> t])

(* SessionStore.set *)
StoreSet(st, key, messages, t, rounds) ==
    Put(st, key, [messages |-> Trim(messages, rounds), ts |-> t])

----------------------------------------------------------------------------
(* Python truthiness and `a or b` on optional strings *)

Truthy(s) == s # None /\ s # ""

Or(a, b) == IF Truthy(a) THEN a ELSE b

(* a dict is a function on its keys; {} is the function with no key *)
EmptyDict == [k \in {} |-> None]

IsEmptyDict(d) == DOMAIN d = {}

(* text is a sequence of characters; <<>> stands for "" and for a missing text *)
NoText == <<>>

DictGetText(d, k) == IF k \in DOMAIN d THEN d[k] ELSE NoText

TextOr(a, b) == IF Len(a) > 0 THEN a ELSE b

(* the value of an attribute `data`: a dict, or something that is no dict *)
DictVal(d) == [isdict |-> TRUE, d |-> d]

NotADict == [isdict |-> FALSE, d |-> EmptyDict]

----------------------------------------------------------------------------
(* Upstream text event source (openai_client.py) *)

(* MockEvent(event_type, data): an object with the attributes type and data *)
MockEvent(event_type, data) == [type |-> event_type, data |-> DictVal(data)]

(* the canned reply of the simulated source, one entry per character *)
MockReplyText ==
    <<"zhe", "shi", "yi", "ge", "mo", "ni", "liu", "shi", "hui", "fu", ",",
      "yong", "yu", "ben", "di", "yan", "zheng", "S", "S", "E", ".">>

Usage(text) ==
    [input_tokens |-> 0, output_tokens |-> Len(text), total_tokens |-> Len(text)]

(* OpenAIClient(): the key and the mock switch are read from the            *)
(* environment once, when the client is built                               *)
OpenAIClientInit(e) == [api_key |-> e.OPENAI_API_KEY, use_mock |-> e.USE_MOCK = "1"]

(* OpenAIClient._stream_impl: which source a request gets *)
TextSourceKind(c) ==
    IF c.use_mock \/ ~Truthy(c.api_key) THEN "mock" ELSE "live"

(* a fresh source: nothing iterated yet.  text is reply_text (mock) or the   *)
(* joined _buffer (live); i counts the characters emitted (mock) or the      *)
(* backend chunks consumed (live).                                           *)
NewStream(kind) ==
    [kind |-> kind, pos |-> "created", i |-> 0,
     text |-> IF kind = "mock" THEN MockReplyText ELSE <<>>,
     evs |-> <<>>, bad |-> FALSE, final |-> "usage"]

NoStream == [kind |-> "none", pos |-> "closed", i |-> 0, text |-> <<>>,
             evs |-> <<>>, bad |-> FALSE, final |-> "usage"]

(* Any other iterable handed to stream_generator (an OpenAI responses.stream *)
(* object, say): it hands out the events evs, then ends or, if bad, raises;  *)
(* final tells what get_final_response does.  i counts the events handed    *)
(* out.                                                                      *)
RawStream(evs, bad, final) ==
    [kind |-> "raw", pos |-> "body", i |-> 0, text |-> <<>>,
     evs |-> evs, bad |-> bad, final |-> final]

Yield(ev, st) == [kind |-> "event", event |-> ev, stream |-> st]

StopIteration(st) == [kind |-> "stop", event |-> MockEvent("", EmptyDict), stream |-> st]

Raise(st) == [kind |-> "raise", event |-> MockEvent("", EmptyDict), stream |-> st]

Closed(st) == [st EXCEPT !.pos = "closed"]

Raised(st) == [st EXCEPT !.pos = "raised"]

(* what the backend generator of the live source may hand out: a content    *)
(* fragment of one or two characters                                        *)
ChunkTexts == {<<"x">>, <<"y", "z">>}

MaxChunks == 1      \* backend chunks per live response

(* the head and tail shared by MockStream.events and                         *)
(* ChatCompletionsStreamAdapter.events                                       *)
EventsFrame(st, created_id) ==
    CASE st.pos = "created" ->
            {Yield(MockEvent("response.created", [id |-> created_id]),
                   [st EXCEPT !.pos = "start"])}
      [] st.pos = "start" ->
            {Yield(MockEvent("message.start", EmptyDict), [st EXCEPT !.pos = "body"])}
      [] st.pos = "usage" ->
            {Yield(MockEvent("response.usage", Usage(st.text)),
                   [st EXCEPT !.pos = "completed"])}
      [] st.pos = "completed" ->
            {Yield(MockEvent("response.completed", EmptyDict), [st EXCEPT !.pos = "end"])}
      [] OTHER -> {StopIteration(Closed(st))}

(* a simulated source that stops one character early *)
MockStreamEventsShort(st) ==
    IF st.pos = "body"
    THEN IF st.i + 1 < Len(st.text)
         THEN {Yield(MockEvent("content.delta", [delta |-> <<st.text[st.i + 1]>>]),
                     [st EXCEPT !.i = st.i + 1])}
         ELSE {Yield(MockEvent("message.stop", EmptyDict), [st EXCEPT !.pos = "usage"])}
    ELSE EventsFrame(st, "mock-001")

(* MockStream.events: the outcomes of one next() *)
MockStreamEvents(st) ==
    IF st.pos = "body"
    THEN IF st.i < Len(st.text)
         THEN {Yield(MockEvent("content.delta", [delta |-> <<st.text[st.i + 1]>>]),
                     [st EXCEPT !.i = st.i + 1])}
         ELSE {Yield(MockEvent("message.stop", EmptyDict), [st EXCEPT !.pos = "usage"])}
    ELSE EventsFrame(st, "mock-001")

(* ChatCompletionsStreamAdapter.events: the outcomes of one next().  In the  *)
(* body the backend generator is pulled: k chunks without usable content     *)
(* (no content, empty content, or a malformed chunk whose exception is       *)
(* caught) are passed over, then a chunk with content is yielded as a delta, *)
(* or the backend ends, or the backend raises (which is not caught).         *)
AdapterEvents(st) ==
    IF st.pos = "body"
    THEN UNION {
           {Yield(MockEvent("content.delta", [delta |-> c]),
                  [st EXCEPT !.i = st.i + k + 1, !.text = st.text \o c])
              : c \in IF st.i + k < MaxChunks THEN ChunkTexts ELSE {}}
           \cup {Yield(MockEvent("message.stop", EmptyDict),
                        [st EXCEPT !.i = st.i + k, !.pos = "usage"])}
           \cup {Raise(Raised([st EXCEPT !.i = st.i + k]))}
           : k \in 0..(MaxChunks - st.i)}
    ELSE EventsFrame(st, "chatcmpl-stream")

(* one next() on the iterator of any other iterable *)
RawEvents(st) ==
    IF st.pos # "body" THEN {StopIteration(Closed(st))}
    ELSE IF st.i < Len(st.evs) THEN {Yield(st.evs[st.i + 1], [st EXCEPT !.i = st.i + 1])}
    ELSE IF st.bad THEN {Raise(Raised(st))}
    ELSE {StopIteration(Closed(st))}

(* iterating the stream object: one next() on its iterator *)
StreamNext(st) ==
    CASE st.kind = "mock" -> MockStreamEvents(st)
      [] st.kind = "raw" -> RawEvents(st)
      [] OTHER -> AdapterEvents(st)

(* what get_final_response of a stream object can do *)
FinalKinds == {"usage", "none", "usage_object", "raises", "missing"}

(* stream.get_final_response() and the usage read from its result.  Both     *)
(* sources of the service return {"usage": {...}}.  Another object may have  *)
(* no such method ("missing") or raise in it ("raises"), return something    *)
(* without a usage (None, a number, {}: "none"), or return a usage that is   *)
(* truthy but no dict ("usage_object").                                      *)
get_final_response(st) ==
    CASE st.final = "usage" ->
            [raised |-> FALSE, has_usage |-> TRUE, usage |-> DictVal(Usage(st.text))]
      [] st.final = "usage_object" ->
            [raised |-> FALSE, has_usage |-> TRUE, usage |-> NotADict]
      [] st.final = "none" ->
            [raised |-> FALSE, has_usage |-> FALSE, usage |-> NotADict]
      [] OTHER ->
            [raised |-> TRUE, has_usage |-> FALSE, usage |-> NotADict]

----------------------------------------------------------------------------
(* The retry wrapper (retry.py) *)

max_attempts == 3

(* the loop of the retry wrapper, entered with `attempt` failed calls behind *)
(* it, around a function that raises on its first `fails` calls: the number *)
(* of calls made in all, and whether a result is returned (ok) or the last  *)
(* exception is raised again                                                *)
RECURSIVE RetryLoop(_, _, _)
RetryLoop(attempt, fails, limit) ==
    IF attempt < fails
    THEN IF attempt + 1 >= limit
         THEN [calls |-> attempt + 1, ok |-> FALSE]
         ELSE RetryLoop(attempt + 1, fails, limit)
    ELSE [calls |-> attempt + 1, ok |-> TRUE]

(* a wrapper that allows one attempt more *)
retry_with_backoff_one_more(fails) == RetryLoop(0, fails, max_attempts + 1)

(* retry_with_backoff() around a function that raises on its first `fails`  *)
(* calls                                                                    *)
retry_with_backoff(fails) == RetryLoop(0, fails, max_attempts)

----------------------------------------------------------------------------
(* Upstream audio event source (voice_client.py) *)

B64Chars ==
    <<"A", "B", "C", "D", "E", "F", "G", "H", "I", "J", "K", "L", "M", "N", "O", "P",
      "Q", "R", "S", "T", "U", "V", "W", "X", "Y", "Z", "a", "b", "c", "d", "e", "f",
      "g", "h", "i", "j", "k", "l", "m", "n", "o", "p", "q", "r", "s", "t", "u", "v",
      "w", "x", "y", "z", "0", "1", "2", "3", "4", "5", "6", "7", "8", "9", "+", "/">>

(* base64.b64encode(chunk).decode("ascii"), bytes as a sequence of 0..255 *)
RECURSIVE b64encode(_)
b64encode(bs) ==
    IF Len(bs) = 0 THEN <<>>
    ELSE IF Len(bs) = 1 THEN
        <<B64Chars[(bs[1] \div 4) + 1], B64Chars[((bs[1] % 4) * 16) + 1], "=", "=">>
    ELSE IF Len(bs) = 2 THEN
        <<B64Chars[(bs[1] \div 4) + 1],
          B64Chars[((bs[1] % 4) * 16 + bs[2] \div 16) + 1],
          B64Chars[((bs[2] % 16) * 4) + 1], "=">>
    ELSE
        <<B64Chars[(bs[1] \div 4) + 1],
          B64Chars[((bs[1] % 4) * 16 + bs[2] \div 16) + 1],
          B64Chars[((bs[2] % 16) * 4 + bs[3] \div 64) + 1],
          B64Chars[(bs[3] % 64) + 1]>>
        \o b64encode(SubSeq(bs, 4, Len(bs)))

(* the byte chunks resp.iter_bytes() may hand out; <<>> is an empty chunk *)
ByteChunks == {<<72, 105>>, <<255>>}

MaxAudioChunks == 2     \* byte chunks per live synthesis response

(* the values of the project's .env file that VoiceClient reads; None is a  *)
(* name the file does not set                                               *)
DotEnv(voice_use_mock, base_url) ==
    [VOICE_USE_MOCK |-> voice_use_mock, VOICE_CLONE_BASE_URL |-> base_url]

NoDotEnv == DotEnv(None, None)

(* VoiceClient(): the .env file goes before the process environment for the *)
(* base URL; the mock switch is on when the file or the environment has     *)
(* VOICE_USE_MOCK=1 or the environment has USE_MOCK=1.  built_use_mock is a *)
(* ghost: the USE_MOCK of the environment at that time.                     *)
VoiceClientInit(f, e) ==
    [base_url |-> Or(f.VOICE_CLONE_BASE_URL, e.VOICE_CLONE_BASE_URL),
     use_mock |-> (f.VOICE_USE_MOCK = "1" \/ e.VOICE_USE_MOCK = "1" \/ e.USE_MOCK = "1"),
     built_use_mock |-> e.USE_MOCK]

(* a switch that is read when the client is built and never again *)
RuntimeMockFrozen(vc, e) == vc.use_mock

(* the content-type header of the response of the live backend, as a        *)
(* sequence of characters; <<>> is the default of a response without one    *)
AudioPrefix == <<"a", "u", "d", "i", "o", "/">>

ContentTypes ==
    {AudioPrefix \o <<"m", "p", "e", "g">>,
     <<"t", "e", "x", "t", "/", "h", "t", "m", "l">>,
     <<"a", "u", "d", "i", "o">>,
     <<>>}

(* str.startswith *)
StartsWith(s, prefix) ==
    Len(s) >= Len(prefix) /\ SubSeq(s, 1, Len(prefix)) = prefix

(* ghost: the response of the live backend, once its headers are there *)
NoResponse == [have |-> FALSE, ct |-> <<>>]

Response(ct) == [have |-> TRUE, ct |-> ct]

(* n empty chunks *)
Empties(n) == [j \in 1..n |-> <<>>]

(* VoiceClient.synthesize_stream: runtime_mock, evaluated again on every    *)
(* call from the environment of that moment                                 *)
RuntimeMock(vc, e) ==
    vc.use_mock \/ e.USE_MOCK = "1" \/ e.VOICE_USE_MOCK = "1"

(* voice_client.synthesize_stream(text, sid, voice_id) is called.  The       *)
(* function is a generator function (its body has a yield), so the call     *)
(* made by the retry wrapper runs none of the body and returns a generator: *)
(* the wrapped call never raises.  calls is the number of calls the wrapper *)
(* made; est tells that the request failed while it was established.       *)
NewAudio(vc, e) ==
    [mock |-> (RuntimeMock(vc, e) \/ ~Truthy(vc.base_url)), pos |-> "start", i |-> 0,
     calls |-> retry_with_backoff(0).calls, est |-> FALSE,
     resp |-> NoResponse, recv |-> <<>>]

NoAudio ==
    [mock |-> TRUE, pos |-> "none", i |-> 0, calls |-> 0, est |-> FALSE,
     resp |-> NoResponse, recv |-> <<>>]

AYield(evt, a) == [kind |-> "event", event |-> evt, audio |-> a]

AStop(a) == [kind |-> "stop", event |-> [b64 |-> <<>>], audio |-> [a EXCEPT !.pos = "closed"]]

ARaise(a) == [kind |-> "raise", event |-> [b64 |-> <<>>], audio |-> [a EXCEPT !.pos = "raised"]]

(* the request fails while it is established: connection refused, a status  *)
(* that raise_for_status rejects, a content type that is not audio/...      *)
ARefuse(a) ==
    [kind |-> "raise", event |-> [b64 |-> <<>>],
     audio |-> [a EXCEPT !.pos = "raised", !.est = TRUE]]

(* VoiceMockStream.chunk_size *)
chunk_size == 10

(* the code points of the texts used as input *)
CodePoints(text) ==
    CASE text = "hi" -> <<104, 105>>
      [] text = "ni hao, shi jie" -> <<20320, 22909, 65292, 19990, 30028>>
      [] OTHER -> <<>>

(* str.encode("utf-8") on a sequence of code points below 65536 *)
RECURSIVE Utf8(_)
Utf8(cps) ==
    IF cps = <<>> THEN <<>>
    ELSE LET c == cps[1]
             head == IF c < 128 THEN <<c>>
                     ELSE IF c < 2048 THEN <<192 + (c \div 64), 128 + (c % 64)>>
                     ELSE <<224 + (c \div 4096), 128 + ((c \div 64) % 64), 128 + (c % 64)>>
         IN  head \o Utf8(Tail(cps))

(* VoiceMockStream(text).events(): one {"b64": ...} per window of chunk_size *)
(* bytes of the encoded text                                                 *)
VoiceMockStreamEvents(text) ==
    LET data == Utf8(CodePoints(text))
        n == Len(data)
        starts == {i \in 0..(n - 1) : i % chunk_size = 0}
    IN  [k \in 1..Cardinality(starts) |->
            LET i == (k - 1) * chunk_size
                j == IF i + chunk_size < n THEN i + chunk_size ELSE n
            IN  [b64 |-> b64encode(SubSeq(data, i + 1, j))]]

(* the body of a response: with k empty chunks passed over, a non-empty      *)
(* chunk is yielded, or the response ends, or the transport raises; recv is *)
(* a ghost, the chunks iter_bytes has handed out                            *)
IterBytes(a) ==
    UNION {
       {AYield([b64 |-> b64encode(c)],
               [a EXCEPT !.pos = "body", !.i = a.i + k + 1,
                         !.recv = a.recv \o Empties(k) \o <<c>>])
          : c \in IF a.i + k < MaxAudioChunks THEN ByteChunks ELSE {}}
       \cup {AStop([a EXCEPT !.i = a.i + k, !.recv = a.recv \o Empties(k)])}
       \cup {ARaise([a EXCEPT !.i = a.i + k, !.recv = a.recv \o Empties(k)])}
       : k \in 0..(MaxAudioChunks - a.i)}

(* a live source that relays the body of whatever response it gets *)
synthesize_stream_any_type(a) ==
    IF a.mock THEN {AStop(a)}
    ELSE IF a.pos = "start"
         THEN {ARefuse(a)}
              \cup UNION {IterBytes([a EXCEPT !.resp = Response(ct)]) : ct \in ContentTypes}
         ELSE IterBytes(a)

(* one next() on the generator synthesize_stream returns.  The function has *)
(* a yield in its body, so `return VoiceMockStream(text)` ends the generator *)
(* without an item.  Live: the request may fail when it is established       *)
(* (transport error, raise_for_status), or its response has a content type  *)
(* that does not start with audio/, which raises RuntimeError; else the     *)
(* body is iterated.                                                        *)
synthesize_stream(a) ==
    IF a.mock THEN {AStop(a)}
    ELSE IF a.pos = "start"
         THEN {ARefuse(a)}
              \cup UNION {IF StartsWith(ct, AudioPrefix)
                          THEN IterBytes([a EXCEPT !.resp = Response(ct)])
                          ELSE {ARefuse([a EXCEPT !.resp = Response(ct)])}
                          : ct \in ContentTypes}
         ELSE IterBytes(a)

----------------------------------------------------------------------------
(* Event normalizer and SSE encoding (main.py) *)

(* to_sse(event, data): the frame "event: <event>\ndata: <json>\n\n" *)
to_sse(event, data) == [event |-> event, data |-> data]

(* type tags that contain "delta" *)
DeltaTags == {"content.delta", "response.output_text.delta", "response.refusal.delta"}

GetAttr(obj, name, default) == IF name \in DOMAIN obj THEN obj[name] ELSE default

(* a type tag that is no string and no container: a number, say.  It is     *)
(* truthy, and `"delta" in etype` raises TypeError on it.                   *)
IntTag == "<int>"

(* etype = getattr(event, "type", None) or getattr(event, "event_type", None) or "" *)
TypeTag(event) ==
    Or(GetAttr(event, "type", None), Or(GetAttr(event, "event_type", None), ""))

(* the body of `for event in stream` raises on this event *)
NormalizeRaises(event) == TypeTag(event) = IntTag

(* a normalizer that also passes an upstream response.created through *)
NormalizeCreatedThrough(event) ==
    LET etype == TypeTag(event)
        data == GetAttr(event, "data", NotADict)
        delta == IF data.isdict /\ ~IsEmptyDict(data.d)
                 THEN TextOr(DictGetText(data.d, "delta"), DictGetText(data.d, "text"))
                 ELSE GetAttr(event, "delta", NoText)
        payload == IF data.isdict THEN data.d ELSE EmptyDict
    IN  IF etype \in DeltaTags /\ Len(delta) > 0
            THEN <<to_sse("content.delta", [text |-> delta])>>
        ELSE IF etype \in {"message.start", "message.stop", "response.usage",
                           "response.completed", "response.created"}
            THEN <<to_sse(etype, payload)>>
        ELSE <<>>

(* a normalizer that forwards message.stop and closes the response after it *)
NormalizeEcho(event) ==
    LET etype == TypeTag(event)
        data == GetAttr(event, "data", NotADict)
        delta == IF data.isdict /\ ~IsEmptyDict(data.d)
                 THEN TextOr(DictGetText(data.d, "delta"), DictGetText(data.d, "text"))
                 ELSE GetAttr(event, "delta", NoText)
        payload == IF data.isdict THEN data.d ELSE EmptyDict
    IN  IF etype \in DeltaTags /\ Len(delta) > 0
            THEN <<to_sse("content.delta", [text |-> delta])>>
        ELSE IF etype = "message.start"
            THEN <<to_sse(etype, payload)>>
        ELSE IF etype = "message.stop"
            THEN <<to_sse(etype, payload), to_sse("response.completed", EmptyDict)>>
        ELSE IF etype = "response.usage"
            THEN <<to_sse("response.usage", payload)>>
        ELSE IF etype = "response.completed"
            THEN <<to_sse("response.completed", payload)>>
        ELSE <<>>

(* a normalizer that looks at the text of the payload before its delta *)
NormalizeTextFirst(event) ==
    LET etype == TypeTag(event)
        data == GetAttr(event, "data", NotADict)
        delta == IF data.isdict /\ ~IsEmptyDict(data.d)
                 THEN TextOr(DictGetText(data.d, "text"), DictGetText(data.d, "delta"))
                 ELSE GetAttr(event, "delta", NoText)
        payload == IF data.isdict THEN data.d ELSE EmptyDict
    IN  IF etype \in DeltaTags /\ Len(delta) > 0
            THEN <<to_sse("content.delta", [text |-> delta])>>
        ELSE IF etype \in {"message.start", "message.stop"}
            THEN <<to_sse(etype, payload)>>
        ELSE IF etype = "response.usage"
            THEN <<to_sse("response.usage", payload)>>
        ELSE IF etype = "response.completed"
            THEN <<to_sse("response.completed", payload)>>
        ELSE <<>>

(* the body of `for event in stream`: the frames one upstream event yields *)
Normalize(event) ==
    LET etype == TypeTag(event)
        data == GetAttr(event, "data", NotADict)
        delta == IF data.isdict /\ ~IsEmptyDict(data.d)
                 THEN TextOr(DictGetText(data.d, "delta"), DictGetText(data.d, "text"))
                 ELSE GetAttr(event, "delta", NoText)
        payload == IF data.isdict THEN data.d ELSE EmptyDict
    IN  IF etype \in DeltaTags /\ Len(delta) > 0
            THEN <<to_sse("content.delta", [text |-> delta])>>
        ELSE IF etype \in {"message.start", "message.stop"}
            THEN <<to_sse(etype, payload)>>
        ELSE IF etype = "response.usage"
            THEN <<to_sse("response.usage", payload)>>
        ELSE IF etype = "response.completed"
            THEN <<to_sse("response.completed", payload)>>
        ELSE <<>>

----------------------------------------------------------------------------
(* Requests (main.py, types.py, prompts.py, retry.py) *)

Slots == {1, 2}

MaxRequests == 1    \* requests received in one run

ReqIds == <<"req-1", "req-2", "req-3", "req-4", "req-5", "req-6">>

(* PROMPTS.get(name) *)
PROMPTS(name) ==
    CASE name = "default" -> "default-prompt"
      [] name = "assistant" -> "assistant-prompt"
      [] name = "coder" -> "coder-prompt"
      [] OTHER -> None

(* ChatStreamBody; messages <<>> stands for an absent and for an empty list *)
Body(input, sessionId, system, systemPromptName, messages) ==
    [input |-> input, sessionId |-> sessionId, system |-> system,
     systemPromptName |-> systemPromptName, messages |-> messages]

(* a conversation that puts the system message after the history *)
build_messages_history_first(system_text, history, user_input) ==
    history
    \o (IF Truthy(system_text) THEN <<Message("system", system_text)>> ELSE <<>>)
    \o <<Message("user", user_input)>>

build_messages(system_text, history, user_input) ==
    (IF Truthy(system_text) THEN <<Message("system", system_text)>> ELSE <<>>)
    \o history \o <<Message("user", user_input)>>

NoReq == [request_id |-> None, session_id |-> None, body |-> Body("", None, None, None, <<>>),
          header_voice |-> None, query_voice |-> None, voice_id |-> None,
          fails |-> 0, calls |-> 0, bare |-> FALSE]

(* ghost: the record a request finds under its key before it touches the store *)
NoRecord == [had |-> FALSE, age |-> 0, messages |-> <<>>]

Found(st, key, t) ==
    IF key \in DOMAIN st
    THEN [had |-> TRUE, age |-> t - st[key].ts, messages |-> st[key].messages]
    ELSE NoRecord

(* the session key of a request: session_id or request_id *)
KeyOf(q) == Or(q.session_id, q.request_id)

HistoryOf(st, key) == IF key \in DOMAIN st THEN st[key].messages ELSE <<>>

(* ghost: the run of consecutive appends of a key restarts when its history  *)
(* is replaced or dropped                                                    *)
RunReset(rn, key) == [k \in (DOMAIN rn) \ {key} |-> rn[k]]

RunAppend(rn, key, message, fresh) ==
    [k \in (DOMAIN rn) \cup {key} |->
        IF k = key
        THEN (IF fresh \/ key \notin DOMAIN rn THEN <<message>> ELSE Append(rn[key], message))
        ELSE rn[k]]

Expired(st, key, t, ttl) == key \in DOMAIN st /\ _is_expired(st[key].ts, t, ttl)

(* ghost: a call on the store.  For get and append, had and age describe the *)
(* record of the key as the call found it (age is the time since it was     *)
(* last touched); set does not look at it.  ret is the list a get returned. *)
Call(op, st, key, t, ret) ==
    IF op = "set" THEN [op |-> op, key |-> key, had |-> FALSE, age |-> 0, ret |-> <<>>]
    ELSE [op |-> op, key |-> key, had |-> key \in DOMAIN st,
          age |-> IF key \in DOMAIN st THEN t - st[key].ts ELSE 0, ret |-> ret]

NoCall == [op |-> "none", key |-> None, had |-> FALSE, age |-> 0, ret |-> <<>>]

----------------------------------------------------------------------------
(* Initial state: a fresh SessionStore(ttl_seconds, max_rounds), the clients *)
(* built from the environment, no request yet                                *)

EnvOf(use_mock, api_key, voice_use_mock, base_url) ==
    [USE_MOCK |-> use_mock, OPENAI_API_KEY |-> api_key,
     VOICE_USE_MOCK |-> voice_use_mock, VOICE_CLONE_BASE_URL |-> base_url]

Envs ==
    {EnvOf("1", None, "0", "http://tts"),
     EnvOf("0", "key", "0", "http://tts")}

InitFrom(rounds, ttls, envs, files) ==
    /\ store = EmptyStore
    /\ max_rounds \in rounds
    /\ ttl_seconds \in ttls
    /\ now = 0
    /\ run = EmptyStore
    /\ last = NoCall
    /\ env \in envs
    /\ client = OpenAIClientInit(env)
    /\ \E f \in files : voice_client = VoiceClientInit(f, env)
    /\ nreq = 0
    /\ pc = [r \in Slots |-> "idle"]
    /\ req = [r \in Slots |-> NoReq]
    /\ conversation = [r \in Slots |-> <<>>]
    /\ stream = [r \in Slots |-> NoStream]
    /\ audio = [r \in Slots |-> NoAudio]
    /\ wire = [r \in Slots |-> <<>>]
    /\ appended = [r \in Slots |-> 0]
    /\ snap = [r \in Slots |-> <<>>]
    /\ pre = [r \in Slots |-> NoRecord]
    /\ pulls = [r \in Slots |-> 0]

(* a service without a .env file *)
InitWith(rounds, ttls, envs) == InitFrom(rounds, ttls, envs, {NoDotEnv})

(* no time passes in Spec, so one ttl_seconds stands for all; the window   *)
(* is the largest one                                                      *)
Init == InitWith({MaxRounds}, {MaxTtl}, Envs)

(* time passes *)
Tick ==
    /\ now < MaxTime
    /\ now' = now + 1
    /\ UNCHANGED <<store, max_rounds, ttl_seconds, run, last>>
    /\ UNCHANGED reqVars

----------------------------------------------------------------------------
(* chat_stream_post(body, request) up to `return StreamingResponse(...)`:    *)
(* history is set or loaded, the conversation built and the text stream     *)
(* created (with retries).  header_voice and query_voice are what the       *)
(* client sent; bare tells that the Request object handed in was built from *)
(* the scope {"type": "http"} and holds neither headers nor a query string. *)
Handle(r, body, header_voice, query_voice, fails, bare) ==
    /\ pc[r] \in {"idle", "done", "crashed", "failed", "cancelled"}
    /\ nreq < Len(ReqIds)
    /\ LET request_id == ReqIds[nreq + 1]
           session_id == body.sessionId
           key == Or(session_id, request_id)
           system_text == Or(body.system, PROMPTS(Or(body.systemPromptName, "default")))
           inline == Len(body.messages) > 0
           got == StoreGet(store, key, now, ttl_seconds)
           history == IF inline THEN body.messages ELSE got.ret
           store1 == IF inline
                     THEN StoreSet(store, key, body.messages, now, max_rounds)
                     ELSE got.store
           kind == TextSourceKind(client)
           created == retry_with_backoff(IF kind = "mock" THEN 0 ELSE fails)
       IN  /\ store' = store1
           /\ last' = IF inline THEN Call("set", store, key, now, <<>>)
                      ELSE Call("get", store, key, now, got.ret)
           /\ run' = IF inline \/ Expired(store, key, now, ttl_seconds)
                      THEN RunReset(run, key) ELSE run
           /\ nreq' = nreq + 1
           /\ req' = [req EXCEPT ![r] =
                        [request_id |-> request_id, session_id |-> session_id,
                         body |-> body, header_voice |-> header_voice,
                         query_voice |-> query_voice, voice_id |-> None,
                         fails |-> IF kind = "mock" THEN 0 ELSE fails,
                         calls |-> created.calls, bare |-> bare]]
           /\ pre' = [pre EXCEPT ![r] = Found(store, key, now)]
           /\ pulls' = [pulls EXCEPT ![r] = 0]
           /\ conversation' = [conversation EXCEPT ![r] =
                        build_messages(system_text, history, body.input)]
           /\ stream' = [stream EXCEPT ![r] = IF created.ok THEN NewStream(kind) ELSE NoStream]
           /\ pc' = [pc EXCEPT ![r] = IF created.ok THEN "ready" ELSE "failed"]
           /\ audio' = [audio EXCEPT ![r] = NoAudio]
           /\ wire' = [wire EXCEPT ![r] = <<>>]
           /\ appended' = [appended EXCEPT ![r] = 0]
           /\ snap' = [snap EXCEPT ![r] = HistoryOf(store1, key)]
    /\ UNCHANGED <<max_rounds, ttl_seconds, now, env, client, voice_client>>

(* POST /chat/stream *)
ChatStreamPost(r, body, header_voice, query_voice, fails) ==
    Handle(r, body, header_voice, query_voice, fails, FALSE)

(* GET /chat/stream?input=..&sessionId=..&system=..&systemPromptName=..      *)
(* [&voiceId=..]: the body is built from the query parameters (voiceId is   *)
(* not among them) and chat_stream_post is called with                      *)
(* Request(scope={"type": "http"})                                          *)
ChatStreamGet(r, input, sessionId, system, systemPromptName, voiceId, fails) ==
    Handle(r, Body(input, sessionId, system, systemPromptName, <<>>), None, voiceId, fails, TRUE)

(* a producer that runs ahead of its consumer *)
DemandedAlways(asked, w) == TRUE

(* run_stream is an (async) generator and stream_with_voice,                *)
(* stream_generator and the sources are generators inside it: their code    *)
(* runs only while a request of the consumer for the next chunk is          *)
(* outstanding, from the request to the next yield (or to the end).  asked  *)
(* is the number of chunks requested so far, w the chunks yielded.          *)
Demanded(asked, w) == asked > Len(w)

(* positions of a request whose generator run_stream is not exhausted *)
Running == {"ready", "text", "final", "completing", "text_done", "audio", "audio_done"}

(* the consumer of the StreamingResponse asks for the next chunk *)
Pull(r) ==
    /\ pc[r] \in Running
    /\ pulls[r] = Len(wire[r])
    /\ pulls' = [pulls EXCEPT ![r] = @ + 1]
    /\ UNCHANGED storeVars
    /\ UNCHANGED <<env, client, voice_client, nreq, pc, req, conversation, stream, audio, wire, appended, snap, pre>>

(* run_stream is started: the voice id is read from the request and          *)
(* stream_generator yields response.created.  On a Request built from a     *)
(* bare scope request.headers raises KeyError (the scope has no "headers"   *)
(* entry), which leaves run_stream before anything is written.              *)
StreamStart(r) ==
    /\ pc[r] = "ready"
    /\ Demanded(pulls[r], wire[r])
    /\ IF req[r].bare
       THEN /\ pc' = [pc EXCEPT ![r] = "crashed"]
            /\ UNCHANGED <<req, wire>>
       ELSE /\ req' = [req EXCEPT ![r].voice_id = Or(req[r].header_voice, req[r].query_voice)]
            /\ wire' = [wire EXCEPT ![r] = Append(@,
                          to_sse("response.created",
                                 [requestId |-> req[r].request_id,
                                  sessionId |-> req[r].session_id]))]
            /\ pc' = [pc EXCEPT ![r] = "text"]
    /\ UNCHANGED storeVars
    /\ UNCHANGED <<env, client, voice_client, nreq, conversation, stream, audio, appended, snap, pre, pulls>>

(* stream_generator: one turn of `for event in stream`; an exception of the  *)
(* source is answered with response.error and the generator returns          *)
TextNext(r) ==
    /\ pc[r] = "text"
    /\ Demanded(pulls[r], wire[r])
    /\ \E o \in StreamNext(stream[r]) :
          /\ stream' = [stream EXCEPT ![r] = o.stream]
          /\ wire' = [wire EXCEPT ![r] =
                CASE o.kind = "event" /\ ~NormalizeRaises(o.event) -> @ \o Normalize(o.event)
                  [] o.kind = "stop" -> @
                  [] OTHER -> Append(@, to_sse("response.error", [message |-> "error"]))]
          /\ pc' = [pc EXCEPT ![r] =
                CASE o.kind = "event" /\ ~NormalizeRaises(o.event) -> "text"
                  [] o.kind = "stop" -> "final"
                  [] OTHER -> "text_done"]
    /\ UNCHANGED storeVars
    /\ UNCHANGED <<env, client, voice_client, nreq, req, conversation, audio, appended, snap, pre, pulls>>

(* a finalize step whose exception is not caught where it happens *)
AfterLoopUnguarded(final) ==
    IF final.raised THEN <<to_sse("response.error", [message |-> "error"])>>
    ELSE (IF final.has_usage
          THEN <<to_sse("response.usage", IF final.usage.isdict THEN final.usage.d ELSE EmptyDict)>>
          ELSE <<>>)
         \o <<to_sse("response.completed", EmptyDict)>>

(* stream_generator after the loop: the frames it yields.  The finalize step *)
(* is inside try/except Exception: pass, so a failure in it yields nothing;  *)
(* a truthy usage is yielded as response.usage; response.completed follows   *)
(* in either case.                                                           *)
AfterLoop(final) ==
    (IF ~final.raised /\ final.has_usage
     THEN <<to_sse("response.usage", IF final.usage.isdict THEN final.usage.d ELSE EmptyDict)>>
     ELSE <<>>)
    \o <<to_sse("response.completed", EmptyDict)>>

(* stream_generator after the loop: the first frame is yielded *)
Finalize(r) ==
    /\ pc[r] = "final"
    /\ Demanded(pulls[r], wire[r])
    /\ LET frames == AfterLoop(get_final_response(stream[r]))
       IN  /\ wire' = [wire EXCEPT ![r] = Append(@, frames[1])]
           /\ pc' = [pc EXCEPT ![r] = IF Len(frames) > 1 THEN "completing" ELSE "text_done"]
    /\ UNCHANGED storeVars
    /\ UNCHANGED <<env, client, voice_client, nreq, req, conversation, stream, audio, appended, snap, pre, pulls>>

(* stream_generator: the closing response.completed *)
Complete(r) ==
    /\ pc[r] = "completing"
    /\ Demanded(pulls[r], wire[r])
    /\ wire' = [wire EXCEPT ![r] = Append(@, AfterLoop(get_final_response(stream[r]))[2])]
    /\ pc' = [pc EXCEPT ![r] = "text_done"]
    /\ UNCHANGED storeVars
    /\ UNCHANGED <<env, client, voice_client, nreq, req, conversation, stream, audio, appended, snap, pre, pulls>>

(* a voice test that lets the empty voice id through *)
VoiceGivenNotNone(voice_id) == voice_id # None

(* stream_with_voice: `if voice_id:` *)
VoiceGiven(voice_id) == Truthy(voice_id)

(* a session key for synthesis that is the bare session id *)
SidBare(session_id, request_id) == session_id

(* stream_with_voice: sid_for_tts = session_id or request_id *)
SidForTts(session_id, request_id) == Or(session_id, request_id)

(* stream_with_voice after the text frames, voice id given: one turn of the  *)
(* loop over synthesize_stream; an exception of the source leaves run_stream *)
AudioNext(r) ==
    /\ \/ pc[r] = "text_done" /\ VoiceGiven(req[r].voice_id)
       \/ pc[r] = "audio"
    /\ Demanded(pulls[r], wire[r])
    /\ LET sid_for_tts == SidForTts(req[r].session_id, req[r].request_id)
           a == IF pc[r] = "text_done" THEN NewAudio(voice_client, env) ELSE audio[r]
       IN  \E o \in synthesize_stream(a) :
             /\ audio' = [audio EXCEPT ![r] = o.audio]
             /\ wire' = [wire EXCEPT ![r] =
                   CASE o.kind = "event" -> Append(@, to_sse("audio.chunk", o.event))
                     [] o.kind = "stop" ->
                          Append(@, to_sse("audio.completed",
                                 [voiceId |-> req[r].voice_id, sessionId |-> sid_for_tts]))
                     [] OTHER -> @]
             /\ pc' = [pc EXCEPT ![r] =
                   CASE o.kind = "event" -> "audio"
                     [] o.kind = "stop" -> "audio_done"
                     [] OTHER -> "crashed"]
    /\ UNCHANGED storeVars
    /\ UNCHANGED <<env, client, voice_client, nreq, req, conversation, stream, appended, snap, pre, pulls>>

(* run_stream after stream_with_voice is exhausted: the placeholder turn is  *)
(* appended to the session history                                           *)
RequestEnd(r) ==
    /\ \/ pc[r] = "text_done" /\ ~VoiceGiven(req[r].voice_id)
       \/ pc[r] = "audio_done"
    /\ Demanded(pulls[r], wire[r])
    /\ store' = StoreAppend(store, KeyOf(req[r]), AssistantPlaceholder,
                            now, ttl_seconds, max_rounds)
    /\ last' = Call("append", store, KeyOf(req[r]), now, <<>>)
    /\ run' = RunAppend(run, KeyOf(req[r]), AssistantPlaceholder,
                        Expired(store, KeyOf(req[r]), now, ttl_seconds))
    /\ appended' = [appended EXCEPT ![r] = @ + 1]
    /\ pc' = [pc EXCEPT ![r] = "done"]
    /\ UNCHANGED <<max_rounds, ttl_seconds, now>>
    /\ UNCHANGED <<env, client, voice_client, nreq, req, conversation, stream, audio, wire, snap, pre, pulls>>

(* the consumer goes away (the client disconnects): it asks for no further  *)
(* chunk.  The generators are synchronous between two yields, so this       *)
(* happens while run_stream is suspended at a yield, or before it was       *)
(* started.                                                                 *)
Disconnect(r) ==
    /\ pc[r] \in Running
    /\ pulls[r] = Len(wire[r])
    /\ pc' = [pc EXCEPT ![r] = "abandoned"]
    /\ UNCHANGED storeVars
    /\ UNCHANGED <<env, client, voice_client, nreq, req, conversation, stream, audio,
                   wire, appended, snap, pre, pulls>>

(* a run_stream that appends the placeholder in a finally clause *)
run_stream_closed_finally == <<AssistantPlaceholder>>

(* run_stream is closed at `yield chunk` (aclose, or the finalizer of the   *)
(* abandoned generator): GeneratorExit is raised at the yield.  It is no    *)
(* Exception, so no except clause of run_stream, stream_with_voice,         *)
(* stream_generator or the sources catches it, and there is no finally      *)
(* clause: the statements after the loop, the append among them, are not    *)
(* reached.  The value is the messages the closing generator appends.       *)
run_stream_closed == <<>>

(* the abandoned generator of slot r is closed; when, or whether, is up to  *)
(* the runtime                                                              *)
Close(r) ==
    /\ pc[r] = "abandoned"
    /\ pc' = [pc EXCEPT ![r] = "cancelled"]
    /\ store' = IF run_stream_closed = <<>> THEN store
                ELSE StoreAppend(store, KeyOf(req[r]), run_stream_closed[1],
                                 now, ttl_seconds, max_rounds)
    /\ appended' = [appended EXCEPT ![r] = @ + Len(run_stream_closed)]
    /\ UNCHANGED <<max_rounds, ttl_seconds, now, run, last>>
    /\ UNCHANGED <<env, client, voice_client, nreq, req, conversation, stream, audio,
                   wire, snap, pre, pulls>>

----------------------------------------------------------------------------
(* The service with one request in progress at a time *)

SessionIdInputs == {None, "", "s1"}

(* X-Voice-Id header and voiceId query parameter of a request *)
VoiceInputs == {<<None, None>>, <<"", "">>, <<"v1", None>>, <<None, "v2">>}

InlineInputs == {<<>>, <<UserMsg, AssistantPlaceholder, UserMsg>>}

Bodies == {Body("hi", sid, None, None, ms) : sid \in SessionIdInputs, ms \in InlineInputs}

Next ==
    \/ /\ nreq < MaxRequests
       /\ \E body \in Bodies, v \in VoiceInputs, fails \in {0, max_attempts} :
              ChatStreamPost(1, body, v[1], v[2], fails)
    \/ Pull(1)
    \/ StreamStart(1)
    \/ TextNext(1)
    \/ Finalize(1)
    \/ Complete(1)
    \/ AudioNext(1)
    \/ RequestEnd(1)

Spec == Init /\ [][Next]_vars

----------------------------------------------------------------------------
(* The session store on its own: any sequence of get, append and set calls   *)
(* on a SessionStore(ttl_seconds, max_rounds), with time passing             *)

MaxSetLen == 2      \* longest list handed to set

(* the lists handed to set: a dialogue of n alternating turns *)
Dialogue(n) == [i \in 1..n |-> IF i % 2 = 1 THEN UserMsg ELSE AssistantPlaceholder]

MessageLists == {Dialogue(n) : n \in 0..MaxSetLen}

(* the keys that receive appends *)
AppendKeys == {"s1"}

Get(key) ==
    /\ store' = StoreGet(store, key, now, ttl_seconds).store
    /\ last' = Call("get", store, key, now, StoreGet(store, key, now, ttl_seconds).ret)
    /\ run' = IF Expired(store, key, now, ttl_seconds) THEN RunReset(run, key) ELSE run
    /\ UNCHANGED <<max_rounds, ttl_seconds, now>>
    /\ UNCHANGED reqVars

AppendMsg(key, message) ==
    /\ Len(HistoryOf(store, key)) < MaxStored
    /\ key \in DOMAIN run => Len(run[key]) < MaxStored
    /\ store' = StoreAppend(store, key, message, now, ttl_seconds, max_rounds)
    /\ last' = Call("append", store, key, now, <<>>)
    /\ run' = RunAppend(run, key, message, Expired(store, key, now, ttl_seconds))
    /\ UNCHANGED <<max_rounds, ttl_seconds, now>>
    /\ UNCHANGED reqVars

SetMsgs(key, messages) ==
    /\ store' = StoreSet(store, key, messages, now, max_rounds)
    /\ last' = Call("set", store, key, now, <<>>)
    /\ run' = RunReset(run, key)
    /\ UNCHANGED <<max_rounds, ttl_seconds, now>>
    /\ UNCHANGED reqVars

NextStore ==
    \/ Tick
    \/ \E key \in Keys : Get(key)
    \/ \E key \in AppendKeys, message \in Msgs : AppendMsg(key, message)
    \/ \E key \in Keys, messages \in MessageLists : SetMsgs(key, messages)

SpecStore == InitWith(0..MaxRounds, 1..MaxTtl, {EnvOf("1", None, "0", "")}) /\ [][NextStore]_vars

----------------------------------------------------------------------------
(* The handler chat_stream_post on a store that holds some history: the     *)
(* history of "s1" is set and ages, then a request arrives.  "s2" is a      *)
(* session identifier the store has never seen.                             *)

SystemInputs == {None, "", "be brief"}

PromptNameInputs == {None, "coder", "nope"}

ConvBodies ==
    {Body("hi", sid, system, name, ms) :
        sid \in {None, "s1", "s2"}, system \in SystemInputs,
        name \in PromptNameInputs, ms \in InlineInputs}

NextConv ==
    \/ Tick
    \/ \E messages \in MessageLists : SetMsgs("s1", messages)
    \/ /\ nreq < MaxRequests
       /\ \E body \in ConvBodies : ChatStreamPost(1, body, None, None, 0)

SpecConv == InitWith(0..MaxRounds, 1..MaxTtl, {EnvOf("1", None, "0", "")}) /\ [][NextConv]_vars

----------------------------------------------------------------------------
(* Requests to the live text source whose creation call fails a number of   *)
(* times before it succeeds, or every time                                  *)

MaxFails == 4       \* failing creation calls in a row

NextRetry ==
    \/ /\ nreq < MaxRequests
       /\ \E sid \in {None, "s1"}, fails \in 0..MaxFails :
              ChatStreamPost(1, Body("hi", sid, None, None, <<>>), None, None, fails)
    \/ Pull(1)
    \/ StreamStart(1)
    \/ TextNext(1)
    \/ Finalize(1)
    \/ Complete(1)
    \/ RequestEnd(1)

SpecRetry == InitWith({1}, {1}, {EnvOf("0", "key", "0", "")}) /\ [][NextRetry]_vars

----------------------------------------------------------------------------
(* stream_generator on any iterable of events: the events are well-formed   *)
(* ones and malformed ones of every kind, the iteration ends or raises, and *)
(* get_final_response works, fails or is missing.                           *)

MaxRaw == 2         \* events an arbitrary iterable hands out

RawEventSet ==
    {MockEvent("content.delta", [delta |-> <<"a">>]),
     MockEvent("message.stop", EmptyDict),
     MockEvent("response.usage", [total_tokens |-> 1]),
     [type |-> "ping", data |-> DictVal(EmptyDict)],
     [data |-> DictVal([delta |-> <<"b">>])],
     [type |-> IntTag, data |-> DictVal(EmptyDict)],
     [type |-> "message.start", data |-> NotADict],
     [type |-> "content.delta", data |-> NotADict]}

RawEventSeqs == UNION {[1..n -> RawEventSet] : n \in 0..MaxRaw}

(* stream_generator(stream, request_id, session_id) is called on an iterable *)
StreamGenerator(r, evs, bad, final) ==
    /\ pc[r] = "idle"
    /\ nreq < Len(ReqIds)
    /\ nreq' = nreq + 1
    /\ req' = [req EXCEPT ![r] = [NoReq EXCEPT !.request_id = ReqIds[nreq + 1]]]
    /\ stream' = [stream EXCEPT ![r] = RawStream(evs, bad, final)]
    /\ pc' = [pc EXCEPT ![r] = "ready"]
    /\ UNCHANGED storeVars
    /\ pulls' = [pulls EXCEPT ![r] = 0]
    /\ UNCHANGED <<env, client, voice_client, conversation, audio, wire, appended, snap, pre>>

NextNorm ==
    \/ \E evs \in RawEventSeqs, bad \in BOOLEAN, final \in FinalKinds :
            StreamGenerator(1, evs, bad, final)
    \/ Pull(1)
    \/ StreamStart(1)
    \/ TextNext(1)
    \/ Finalize(1)
    \/ Complete(1)

SpecNorm == InitWith({1}, {1}, {EnvOf("1", None, "0", "")}) /\ [][NextNorm]_vars

----------------------------------------------------------------------------
(* Reading a wire: the frames of one response stream *)

Positions(w, names) == {i \in 1..Len(w) : w[i].event \in names}

Count(w, names) == Cardinality(Positions(w, names))

Terminals == {"response.completed", "response.error"}

AudioEvents == {"audio.chunk", "audio.completed"}

(* the stream of slot r is over: run_stream returned or was left by an exception *)
StreamOver(r) == pc[r] \in {"done", "crashed"}

(* the caller supplied a non-empty voice identifier, by header or by query *)
VoiceSupplied(r) == Truthy(req[r].header_voice) \/ Truthy(req[r].query_voice)

(* the content.delta frames of a wire, in the order they were written *)
DeltaFrames(w) == SelectSeq(w, LAMBDA f : f.event = "content.delta")

(* the texts of a sequence of content.delta frames, joined *)
RECURSIVE JoinTexts(_)
JoinTexts(fs) == IF fs = <<>> THEN <<>> ELSE fs[1].data.text \o JoinTexts(Tail(fs))

(* the text stage of slot r is over *)
TextOver(r) == pc[r] \in {"text_done", "audio", "audio_done", "done", "crashed"}

(* the last n elements of a sequence, n >= 0 *)
LastN(xs, n) == IF n >= Len(xs) THEN xs ELSE SubSeq(xs, Len(xs) - n + 1, Len(xs))

----------------------------------------------------------------------------
(* A POST request, served in slot 1, and after it the GET request with the  *)
(* same parameters, served in slot 2, with the simulated sources            *)

NextGet ==
    \/ /\ nreq = 0
       /\ \E sid \in {None, "s1"}, system \in {None, "be brief"}, v \in {None, "v2"} :
              ChatStreamPost(1, Body("hi", sid, system, None, <<>>), None, v, 0)
    \/ /\ nreq = 1
       /\ StreamOver(1)
       /\ LET b == req[1].body
          IN  ChatStreamGet(2, b.input, b.sessionId, b.system, b.systemPromptName,
                            req[1].query_voice, 0)
    \/ \E r \in Slots :
          \/ Pull(r)
          \/ StreamStart(r)
          \/ TextNext(r)
          \/ Finalize(r)
          \/ Complete(r)
          \/ AudioNext(r)
          \/ RequestEnd(r)

SpecGet == InitWith({1}, {1}, {EnvOf("1", None, "0", "http://tts")}) /\ [][NextGet]_vars

----------------------------------------------------------------------------
(* Properties of the response stream *)

(* C1: a finished stream of a request without a voice identifier holds      *)
(* exactly one frame that is response.completed or response.error.          *)
C1_OneTerminalFrame ==
    \A r \in Slots :
        (StreamOver(r) /\ ~VoiceSupplied(r)) => Count(wire[r], Terminals) = 1

(* C2: once response.error is on the wire, no further frame follows it,     *)
(* with or without a voice identifier: response.error is always the last    *)
(* frame written.                                                           *)
C2_NothingAfterError ==
    \A r \in Slots : \A i \in Positions(wire[r], {"response.error"}) : i = Len(wire[r])

(* C3: an exception raised while the audio source is iterated becomes       *)
(* exactly one response.error frame, the last of the stream, and does not   *)
(* leave the generator.                                                     *)
C3_AudioErrorReported ==
    \A r \in Slots :
        audio[r].pos = "raised" =>
            /\ pc[r] # "crashed"
            /\ Count(wire[r], {"response.error"}) = 1
            /\ wire[r][Len(wire[r])].event = "response.error"

(* C4: response.completed terminates the stream: no audio.chunk and no      *)
(* audio.completed frame is written after a response.completed frame.       *)
C4_CompletedIsLast ==
    \A r \in Slots :
        \A i \in Positions(wire[r], {"response.completed"}) :
            \A j \in Positions(wire[r], AudioEvents) : j < i

(* C5: a started stream has response.created as its first frame and nowhere *)
(* else: the response.created of the upstream source is not forwarded.      *)
C5_OneCreatedFirst ==
    \A r \in Slots :
        (pc[r] \notin {"idle", "ready", "failed"}) =>
            Positions(wire[r], {"response.created"}) = {1}

C5_Witness ==
    \E r \in Slots :
        /\ pc[r] = "done"
        /\ stream[r].kind = "live"
        /\ stream[r].pos = "closed"
        /\ Count(wire[r], {"content.delta"}) > 0

(* C6: the audio stage runs exactly when a non-empty voice identifier was   *)
(* supplied: without one the audio source is never opened and the wire has  *)
(* no audio frame; with one, the audio source is opened once the text stage *)
(* is over.                                                                 *)
C6_AudioIffVoice ==
    \A r \in Slots :
        /\ ~VoiceSupplied(r) =>
              /\ Count(wire[r], AudioEvents) = 0
              /\ audio[r] = NoAudio
              /\ pc[r] \notin {"audio", "audio_done", "crashed"}
        /\ (VoiceSupplied(r) /\ StreamOver(r)) =>
              /\ audio[r].pos \in {"closed", "raised"}
              /\ audio[r].pos = "closed" => Count(wire[r], {"audio.completed"}) = 1

C6_Witness ==
    \E r \in Slots :
        /\ pc[r] = "done"
        /\ req[r].header_voice = ""
        /\ ~VoiceSupplied(r)
        /\ Count(wire[r], {"content.delta"}) > 0

(* C7: with a voice identifier and a synthesis that ended without exception *)
(* the wire has exactly one audio.completed, every audio.chunk is before it *)
(* and after every content.delta, and audio.completed carries the voice     *)
(* identifier and the session key: the session id when one was given (not   *)
(* null, not empty), else the request id; never null.                       *)
C7_AudioCompleted ==
    \A r \in Slots :
        (VoiceSupplied(r) /\ audio[r].pos = "closed" /\ pc[r] \in {"audio_done", "done"}) =>
            LET w == wire[r]
                done == Positions(w, {"audio.completed"})
            IN  /\ Cardinality(done) = 1
                /\ \A i \in Positions(w, {"audio.chunk"}) :
                      /\ \A j \in done : i < j
                      /\ \A j \in Positions(w, {"content.delta"}) : j < i
                /\ \A j \in done :
                      /\ w[j].data.voiceId =
                            (IF Truthy(req[r].header_voice) THEN req[r].header_voice
                             ELSE req[r].query_voice)
                      /\ w[j].data.sessionId =
                            (IF Truthy(req[r].session_id) THEN req[r].session_id
                             ELSE req[r].request_id)
                      /\ w[j].data.sessionId # None

C7_Witness ==
    \E r \in Slots :
        /\ pc[r] = "done"
        /\ req[r].session_id = None
        /\ Count(wire[r], {"audio.completed"}) = 1
        /\ Count(wire[r], {"audio.chunk"}) > 0
        /\ Count(wire[r], {"content.delta"}) > 0

(* C8: the end-of-request append is done exactly once by a request whose    *)
(* stream reached response.completed and never by a request whose stream    *)
(* carried response.error, which leaves the history of its key as it was.   *)
C8_AppendOnSuccessOnly ==
    \A r \in Slots :
        StreamOver(r) =>
            /\ Count(wire[r], {"response.error"}) > 0 =>
                  /\ appended[r] = 0
                  /\ HistoryOf(store, KeyOf(req[r])) = snap[r]
            /\ (Count(wire[r], {"response.error"}) = 0
                 /\ Count(wire[r], {"response.completed"}) > 0) => appended[r] = 1

(* C17: the creation of the text stream is retried a bounded number of      *)
(* times.  The wrapped call is made at least once and at most max_attempts  *)
(* times; when it raises on fewer than max_attempts calls, the first result *)
(* is returned with no further call; when it raises max_attempts times the  *)
(* exception is raised again and the request has no stream; the number of   *)
(* calls stays as it is once the stream is iterated, also when the          *)
(* iteration raises.                                                        *)
C17_BoundedRetry ==
    \A r \in Slots :
        pc[r] # "idle" =>
            LET q == req[r]
            IN  /\ q.calls >= 1 /\ q.calls <= max_attempts
                /\ q.fails < max_attempts =>
                      /\ q.calls = q.fails + 1
                      /\ pc[r] # "failed"
                      /\ stream[r].kind = "live"
                /\ q.fails >= max_attempts =>
                      /\ q.calls = max_attempts
                      /\ pc[r] = "failed"
                      /\ stream[r] = NoStream
                      /\ wire[r] = <<>>

C17_Witness ==
    \E r \in Slots :
        /\ pc[r] = "done"
        /\ req[r].fails = max_attempts - 1
        /\ req[r].calls = max_attempts
        /\ stream[r].pos = "raised"
        /\ Count(wire[r], {"content.delta"}) > 0

(* C18: a failure of the audio source while the call is established is      *)
(* retried by the wrapper, up to max_attempts calls, before it is surfaced; *)
(* a failure after an audio chunk was delivered is not retried and leaves   *)
(* the generator.                                                           *)
C18_AudioRetry ==
    \A r \in Slots :
        audio[r].pos = "raised" =>
            /\ audio[r].est => audio[r].calls = max_attempts
            /\ Count(wire[r], {"audio.chunk"}) > 0 =>
                  /\ audio[r].calls = 1
                  /\ pc[r] = "crashed"

(* the audio.chunk frames of a wire, in the order they were written *)
ChunkFrames(w) == SelectSeq(w, LAMBDA f : f.event = "audio.chunk")

(* C19: with the simulated audio source a finished synthesis has written    *)
(* ceil(n / 10) audio.chunk frames for an input of n UTF-8 bytes, the k-th  *)
(* carrying the base64 of the k-th window of 10 bytes (so that the chunks   *)
(* decode to the bytes of the text); a non-empty input gives at least one   *)
(* audio.chunk.                                                             *)
C19_MockAudioChunks ==
    \A r \in Slots :
        (audio[r].mock /\ audio[r].pos = "closed") =>
            LET n == Len(Utf8(CodePoints(req[r].body.input)))
                chunks == ChunkFrames(wire[r])
                expected == VoiceMockStreamEvents(req[r].body.input)
            IN  /\ Len(chunks) = (n + chunk_size - 1) \div chunk_size
                /\ Len(chunks) = Len(expected)
                /\ \A k \in 1..Len(chunks) : chunks[k].data = expected[k]
                /\ n > 0 => Len(chunks) >= 1

(* a frame without the identifiers of its request *)
Anonymous(f) ==
    IF f.event = "response.created" THEN [event |-> f.event, data |-> EmptyDict] ELSE f

(* C20: GET /chat/stream is equivalent to POST /chat/stream.  For the same  *)
(* input, sessionId, system, systemPromptName and voiceId query parameter   *)
(* the finished GET stream has the frames of the finished POST stream (up   *)
(* to the request id) and the same effect on the session cache: the same    *)
(* number of end-of-request appends.                                        *)
C20_GetEqualsPost ==
    (StreamOver(1) /\ StreamOver(2) /\ req[2].bare /\ ~req[1].bare) =>
        /\ Len(wire[2]) = Len(wire[1])
        /\ \A i \in 1..Len(wire[1]) :
              i <= Len(wire[2]) => Anonymous(wire[2][i]) = Anonymous(wire[1][i])
        /\ appended[2] = appended[1]

(* C14: with the simulated text source the content.delta frames carry one   *)
(* character each and, in the order written, spell the canned reply: a      *)
(* prefix of it while the stream runs and exactly the whole reply once the  *)
(* text stage is over; nothing is lost, doubled or reordered.               *)
C14_MockDeltas ==
    \A r \in Slots :
        stream[r].kind = "mock" =>
            LET d == DeltaFrames(wire[r])
            IN  /\ \A i \in 1..Len(d) : Len(d[i].data.text) = 1
                /\ Len(d) <= Len(MockReplyText)
                /\ JoinTexts(d) = SubSeq(MockReplyText, 1, Len(d))
                /\ TextOver(r) => JoinTexts(d) = MockReplyText

C14_Witness ==
    \E r \in Slots :
        /\ pc[r] = "done"
        /\ stream[r].kind = "mock"
        /\ Len(DeltaFrames(wire[r])) = Len(MockReplyText)
        /\ Count(wire[r], {"response.error"}) = 0

(* C15: a failure of the finalize step is swallowed.  When the iteration of *)
(* the text source ended without exception and the text stage is over, the  *)
(* last frame is response.completed and there is no response.error,         *)
(* whatever get_final_response did (missing, raising, no usage, a usage     *)
(* that is no dict) and whether or not a usage event was seen before; a     *)
(* failed finalize step adds no frame of its own.                           *)
C15_FinalizeSwallowed ==
    \A r \in Slots :
        (stream[r].kind = "raw" /\ stream[r].pos = "closed" /\ pc[r] = "text_done") =>
            LET w == wire[r]
                usage_events == SelectSeq(stream[r].evs,
                                          LAMBDA e : TypeTag(e) = "response.usage")
            IN  /\ w[Len(w)].event = "response.completed"
                /\ Count(w, {"response.error"}) = 0
                /\ stream[r].final \in {"raises", "missing", "none"} =>
                      Count(w, {"response.usage"}) = Len(usage_events)

C15_Witness ==
    \E r \in Slots :
        /\ pc[r] = "text_done"
        /\ stream[r].pos = "closed"
        /\ stream[r].final = "raises"
        /\ Count(wire[r], {"response.usage"}) = 0
        /\ Count(wire[r], {"content.delta"}) > 0
        /\ wire[r][Len(wire[r])].event = "response.completed"

(* the type tags the normalizer knows *)
KnownTags ==
    DeltaTags \cup {"message.start", "message.stop", "response.usage", "response.completed"}

(* an upstream event with no type tag, an unknown one or one that is no      *)
(* string, or with a payload that is no mapping                              *)
Malformed(event) ==
    \/ TypeTag(event) \notin KnownTags
    \/ ~GetAttr(event, "data", NotADict).isdict

(* the frames of a sequence of upstream events *)
RECURSIVE NormalizeAll(_)
NormalizeAll(evs) ==
    IF evs = <<>> THEN <<>> ELSE Normalize(evs[1]) \o NormalizeAll(Tail(evs))

(* C16: a malformed or unrecognized upstream event (unknown type tag, no    *)
(* type tag, a type tag that is no string, a payload that is no mapping)    *)
(* yields no frame and never response.error: response.error is written     *)
(* only when the source itself raised, and when the source is exhausted the *)
(* wire is response.created followed by the frames of the well-formed       *)
(* events, as if the malformed ones had not been there.                     *)
C16_MalformedDropped ==
    \A r \in Slots :
        stream[r].kind = "raw" =>
            LET good == SelectSeq(stream[r].evs, LAMBDA e : ~Malformed(e))
            IN  /\ Count(wire[r], {"response.error"}) > 0 => stream[r].pos = "raised"
                /\ pc[r] = "final" => Tail(wire[r]) = NormalizeAll(good)

----------------------------------------------------------------------------
(* Properties of the session store *)

(* C9: every stored record holds at most 2 * max_rounds messages, for every *)
(* max_rounds >= 0.                                                         *)
C9_WindowBound ==
    \A k \in DOMAIN store : Len(store[k].messages) <= 2 * max_rounds

(* C10: after more than 2 * max_rounds consecutive appends to a key, with   *)
(* no expiry in between, its history is exactly the last 2 * max_rounds     *)
(* appended messages, in the order they were appended.                      *)
C10_WindowContent ==
    \A k \in DOMAIN run :
        Len(run[k]) > 2 * max_rounds =>
            /\ k \in DOMAIN store
            /\ store[k].messages = LastN(run[k], 2 * max_rounds)

(* the record of the key of the last call was older than the TTL *)
LastFoundExpired == last.had /\ last.age > ttl_seconds

(* C11 as stated: a get returns the empty sequence exactly when it finds no  *)
(* record or a record older than the TTL; the expired record is removed by   *)
(* the read, and an append that finds an expired record starts from an      *)
(* empty history.                                                           *)
C11_EmptyExactlyWhenGone ==
    /\ last.op = "get" =>
          /\ last.ret = <<>> <=> (~last.had \/ LastFoundExpired)
          /\ LastFoundExpired => last.key \notin DOMAIN store
    /\ (last.op = "append" /\ LastFoundExpired) =>
          /\ last.key \in DOMAIN store
          /\ Len(store[last.key].messages) <= 1

(* C11: a get that finds no record, or a record with now - ts > ttl_seconds *)
(* (strictly), returns the empty sequence; every other get returns the      *)
(* stored messages, which are empty only if an empty list was stored.  The  *)
(* expired record is removed by the read, so the key is absent afterwards,  *)
(* and an append that finds an expired record starts from an empty history: *)
(* afterwards the key holds nothing but the appended message.               *)
C11_EmptyWhenGone ==
    /\ last.op = "get" =>
          IF ~last.had \/ LastFoundExpired
          THEN /\ last.ret = <<>>
               /\ last.key \notin DOMAIN store
          ELSE /\ last.key \in DOMAIN store
               /\ last.ret = store[last.key].messages
    /\ (last.op = "append" /\ LastFoundExpired) =>
          /\ last.key \in DOMAIN store
          /\ Len(store[last.key].messages) <= 1

C11_Witness ==
    /\ last.op = "get"
    /\ LastFoundExpired
    /\ last.ret = <<>>
    /\ last.key \notin DOMAIN store

(* the step is a get of key k *)
GetStep(k) == last' # last /\ last'.op = "get" /\ last'.key = k

(* C12: a get of a key whose record is not expired is a pure read: it       *)
(* returns the stored messages and leaves the messages and the time stamp   *)
(* of every key as they were (the TTL is not refreshed); a get that follows *)
(* a get of the same key with no time and no other call in between returns  *)
(* the same sequence.                                                       *)
C12_GetIsPureRead ==
    [][\A k \in Keys :
          GetStep(k) =>
             /\ (k \in DOMAIN store /\ now - store[k].ts <= ttl_seconds) =>
                    /\ store' = store
                    /\ last'.ret = store[k].messages
             /\ (last.op = "get" /\ last.key = k /\ ~LastFoundExpired
                   /\ last.age = last'.age) => last'.ret = last.ret]_vars

C12_Witness ==
    /\ last.op = "get"
    /\ last.had
    /\ last.age = ttl_seconds
    /\ last.ret # <<>>
    /\ store[last.key].messages = last.ret
    /\ store[last.key].ts < now

----------------------------------------------------------------------------
(* Properties of the request handler *)

(* C13: the conversation handed to the text source is the system message    *)
(* (if a system text resolved: body.system, else the prompt named by        *)
(* systemPromptName, else the default prompt), then the history, then the   *)
(* current user message.  The history is the inline messages when they are  *)
(* non-empty, else the cached history of the key (session id, else request  *)
(* id) if that is not expired; for an unknown session identifier without    *)
(* inline messages the conversation is the system message and the user      *)
(* message only.                                                            *)
C13_Conversation ==
    \A r \in Slots :
        pc[r] # "idle" =>
            LET b == req[r].body
                name == IF Truthy(b.systemPromptName) THEN b.systemPromptName ELSE "default"
                system_text == IF Truthy(b.system) THEN b.system ELSE PROMPTS(name)
                sys == IF Truthy(system_text) THEN <<Message("system", system_text)>> ELSE <<>>
                cached == IF pre[r].had /\ pre[r].age <= ttl_seconds
                          THEN pre[r].messages ELSE <<>>
                history == IF b.messages # <<>> THEN b.messages ELSE cached
            IN  /\ conversation[r] = sys \o history \o <<Message("user", b.input)>>
                /\ (~pre[r].had /\ b.messages = <<>>) =>
                       conversation[r] = sys \o <<Message("user", b.input)>>

C13_Witness ==
    \E r \in Slots :
        /\ pc[r] = "ready"
        /\ req[r].body.messages = <<>>
        /\ req[r].body.system = "be brief"
        /\ pre[r].had /\ pre[r].age = ttl_seconds
        /\ Len(pre[r].messages) > 1
        /\ Len(conversation[r]) = Len(pre[r].messages) + 2

----------------------------------------------------------------------------
(* stream_generator on events whose type tag contains "delta": the delta is *)
(* in the payload under delta or under text, in the attribute delta of the  *)
(* event, in several of these places or in none                             *)

DeltaPayloads ==
    {DictVal([delta |-> <<"a">>]),
     DictVal([text |-> <<"t">>]),
     DictVal([delta |-> NoText, text |-> <<"t">>]),
     DictVal([delta |-> <<"a">>, text |-> <<"t">>]),
     DictVal([delta |-> NoText]),
     DictVal(EmptyDict),
     NotADict}

DeltaEventSet ==
    {[type |-> tag, data |-> data] :
        tag \in {"content.delta", "response.refusal.delta"}, data \in DeltaPayloads}
    \cup {[type |-> "response.output_text.delta", data |-> data, delta |-> <<"d">>] :
            data \in {DictVal(EmptyDict), NotADict, DictVal([delta |-> NoText])}}

DeltaEventSeqs == UNION {[1..n -> DeltaEventSet] : n \in 0..MaxRaw}

NextDelta ==
    \/ \E evs \in DeltaEventSeqs : StreamGenerator(1, evs, FALSE, "usage")
    \/ Pull(1)
    \/ StreamStart(1)
    \/ TextNext(1)
    \/ Finalize(1)
    \/ Complete(1)

SpecDelta == InitWith({1}, {1}, {EnvOf("1", None, "0", "")}) /\ [][NextDelta]_vars

----------------------------------------------------------------------------
(* The voice client in a changing environment: the service is started with  *)
(* some environment and some .env file, the environment is changed while    *)
(* the service runs (as monkeypatch.setenv does), and a request with a      *)
(* voice identifier arrives.  The text source is the simulated one.         *)

VoiceEnvs ==
    {EnvOf(u, None, v, b) : u \in {"0", "1"}, v \in {"0", "1"}, b \in {"", "http://tts"}}

DotEnvs == {NoDotEnv, DotEnv("0", "http://tts"), DotEnv("1", None)}

(* os.environ[name] = value *)
Setenv(name, value) ==
    /\ env[name] # value
    /\ env' = [env EXCEPT ![name] = value]
    /\ UNCHANGED storeVars
    /\ UNCHANGED <<client, voice_client, nreq, pc, req, conversation, stream, audio,
                   wire, appended, snap, pre, pulls>>

NextVoice ==
    \/ \E name \in {"USE_MOCK", "VOICE_USE_MOCK"}, value \in {"0", "1"} : Setenv(name, value)
    \/ /\ nreq < MaxRequests
       /\ ChatStreamPost(1, Body("hi", "s1", None, None, <<>>), "v1", None, 0)
    \/ Pull(1)
    \/ StreamStart(1)
    \/ TextNext(1)
    \/ Finalize(1)
    \/ Complete(1)
    \/ AudioNext(1)
    \/ RequestEnd(1)

SpecVoice == InitFrom({1}, {1}, VoiceEnvs, DotEnvs) /\ [][NextVoice]_vars

----------------------------------------------------------------------------
(* Two requests on the session "s1" in progress at the same time, each with *)
(* or without inline messages, with the simulated text source and no voice. *)
(* The handler and the end of run_stream have no await in them, so each is  *)
(* one step; between the steps of one request the other may run, and time   *)
(* may pass.  The second request arrives before the first has ended.        *)

PairInline == {<<>>, <<UserMsg, AssistantPlaceholder, UserMsg>>}

NextPair ==
    \/ Tick
    \/ \E r \in Slots :
          \/ /\ pc[r] = "idle"
             /\ \A q \in Slots : pc[q] # "done"
             /\ \E ms \in PairInline :
                    ChatStreamPost(r, Body("hi", "s1", None, None, ms), None, None, 0)
          \/ Pull(r)
          \/ StreamStart(r)
          \/ TextNext(r)
          \/ Finalize(r)
          \/ Complete(r)
          \/ RequestEnd(r)

SpecPair ==
    InitWith({0, MaxRounds}, {1}, {EnvOf("1", None, "0", "")}) /\ [][NextPair]_vars

----------------------------------------------------------------------------
(* One session: requests on "s1" without inline messages, one after the     *)
(* other, each streamed to its end from the simulated text source           *)

MaxSessionRequests == 4     \* requests on the session

NextSession ==
    \/ /\ nreq < MaxSessionRequests
       /\ ChatStreamPost(1, Body("hi", "s1", None, None, <<>>), None, None, 0)
    \/ Pull(1)
    \/ StreamStart(1)
    \/ TextNext(1)
    \/ Finalize(1)
    \/ Complete(1)
    \/ RequestEnd(1)

SpecSession ==
    InitWith({0, MaxRounds}, {1}, {EnvOf("1", None, "0", "")}) /\ [][NextSession]_vars

----------------------------------------------------------------------------
(* A request whose consumer may go away at any yield: simulated and live    *)
(* sources, with and without a voice identifier                             *)

NextCancel ==
    \/ /\ nreq < MaxRequests
       /\ \E v \in {None, "v1"} :
              ChatStreamPost(1, Body("hi", "s1", None, None, <<>>), v, None, 0)
    \/ Pull(1)
    \/ StreamStart(1)
    \/ TextNext(1)
    \/ Finalize(1)
    \/ Complete(1)
    \/ AudioNext(1)
    \/ RequestEnd(1)
    \/ Disconnect(1)
    \/ Close(1)

SpecCancel == InitWith({MaxRounds}, {MaxTtl}, Envs) /\ [][NextCancel]_vars

----------------------------------------------------------------------------
(* Properties of the iteration *)

(* C21: iteration is pull-based.  A response never holds more frames than   *)
(* the consumer has asked for, and the consumer is at most one request      *)
(* ahead of the frames; a step of a request in progress that advances the   *)
(* text source or the audio source or writes a frame is taken only while a  *)
(* request of the consumer is outstanding, and it writes at most one frame. *)
C21_PullBased ==
    [][\A r \in Slots :
          /\ Len(wire'[r]) <= pulls'[r]
          /\ pulls'[r] <= Len(wire'[r]) + 1
          /\ Len(wire'[r]) <= Len(wire[r]) + 1
          /\ (/\ pc[r] \in Running
              /\ \/ stream'[r] # stream[r]
                 \/ audio'[r] # audio[r]
                 \/ wire'[r] # wire[r])
             => pulls[r] > Len(wire[r])]_vars

C21_Witness ==
    \E r \in Slots :
        /\ pc[r] = "audio"
        /\ pulls[r] = Len(wire[r])
        /\ Count(wire[r], {"content.delta"}) > 0
        /\ Count(wire[r], {"audio.chunk"}) > 0

(* the step opens the audio source of slot r: the first next() on the       *)
(* generator synthesize_stream returned                                     *)
OpensAudio(r) == pc[r] = "text_done" /\ audio'[r] # audio[r]

(* C22: when the process environment has USE_MOCK=1, at the time the voice  *)
(* client is built or at the time the audio source is opened, the simulated *)
(* branch is taken and no request goes to the live backend, whatever        *)
(* VOICE_USE_MOCK and the base URL are, in the environment and in .env.     *)
C22_UseMockForcesMock ==
    [][\A r \in Slots :
          (OpensAudio(r) /\ (env.USE_MOCK = "1" \/ voice_client.built_use_mock = "1"))
          => /\ audio'[r].mock
             /\ ~audio'[r].est
             /\ pc'[r] = "audio_done"]_vars

C22_Witness ==
    \E r \in Slots :
        /\ pc[r] = "audio_done"
        /\ env.USE_MOCK = "1"
        /\ env.VOICE_USE_MOCK = "0"
        /\ voice_client.built_use_mock = "0"
        /\ ~voice_client.use_mock
        /\ Truthy(voice_client.base_url)

(* C23: a request whose text source could not be opened (the creation call  *)
(* raised max_attempts times) has written response.created and then one     *)
(* response.error, nothing else, and the record of its session key is as    *)
(* the request found it.                                                    *)
C23_OpenFailureReported ==
    \A r \in Slots :
        pc[r] = "failed" =>
            /\ Len(wire[r]) = 2
            /\ wire[r][1].event = "response.created"
            /\ wire[r][2].event = "response.error"
            /\ Found(store, KeyOf(req[r]), now) = pre[r]

(* the upstream events the loop of slot r has taken so far *)
Taken(r) == SubSeq(stream[r].evs, 1, stream[r].i)

(* C24: the frames of the text stage are an order-preserving image of the   *)
(* upstream events.  While the loop over the source runs, and when it has   *)
(* ended, the frames after response.created are the frames of the events    *)
(* taken so far, event by event in the order the events arrived, and each   *)
(* event has given at most one frame.                                       *)
C24_OrderPreserved ==
    \A r \in Slots :
        (pc[r] \in {"text", "final"} /\ stream[r].kind = "raw") =>
            /\ \A k \in 1..Len(Taken(r)) : Len(Normalize(Taken(r)[k])) <= 1
            /\ Tail(wire[r]) = NormalizeAll(Taken(r))
            /\ Len(Tail(wire[r])) <= Len(Taken(r))

C24_Witness ==
    \E r \in Slots :
        /\ pc[r] = "final"
        /\ Len(Taken(r)) = 2
        /\ Len(wire[r]) = 3
        /\ wire[r][2].event # wire[r][3].event

(* the delta of an event as C25 describes it: from the payload when that is *)
(* a non-empty mapping (its delta, else its text), else the attribute delta *)
(* of the event                                                             *)
DeltaOf(event) ==
    LET data == GetAttr(event, "data", NotADict)
    IN  IF data.isdict /\ DOMAIN data.d # {}
        THEN IF "delta" \in DOMAIN data.d /\ data.d["delta"] # NoText
             THEN data.d["delta"]
             ELSE IF "text" \in DOMAIN data.d THEN data.d["text"] ELSE NoText
        ELSE IF "delta" \in DOMAIN event THEN event["delta"] ELSE NoText

RECURSIVE DeltaImage(_)
DeltaImage(evs) ==
    IF evs = <<>> THEN <<>>
    ELSE (IF DeltaOf(evs[1]) # NoText
          THEN <<[event |-> "content.delta", data |-> [text |-> DeltaOf(evs[1])]]>>
          ELSE <<>>)
         \o DeltaImage(Tail(evs))

(* C25: an upstream event whose type tag contains "delta" gives exactly one *)
(* content.delta frame with the delta found (in a payload that is a         *)
(* non-empty mapping: its delta, else its text; otherwise the attribute     *)
(* delta of the event) when that is not empty, and no frame at all when it  *)
(* is empty: never a frame of another name.                                 *)
C25_DeltaExtraction ==
    \A r \in Slots :
        (pc[r] \in {"text", "final"} /\ stream[r].kind = "raw") =>
            /\ \A k \in 1..Len(Taken(r)) : TypeTag(Taken(r)[k]) \in DeltaTags
            /\ Tail(wire[r]) = DeltaImage(Taken(r))

C25_Witness ==
    \E r \in Slots :
        /\ pc[r] = "final"
        /\ Len(Taken(r)) = 2
        /\ DeltaOf(Taken(r)[1]) = NoText
        /\ "delta" \in DOMAIN Taken(r)[1]
        /\ GetAttr(Taken(r)[2], "data", NotADict) = DictVal([delta |-> NoText, text |-> <<"t">>])
        /\ wire[r] = <<wire[r][1], [event |-> "content.delta", data |-> [text |-> <<"t">>]]>>

(* the non-empty chunks among the chunks received *)
NonEmpty(chunks) == SelectSeq(chunks, LAMBDA c : c # <<>>)

(* C26: with the live audio source, a response whose content type does not  *)
(* start with "audio/" ends the synthesis with an exception before a chunk  *)
(* is read or yielded: the wire has no audio.chunk.  Of a response with an  *)
(* audio content type every non-empty chunk received has given exactly one  *)
(* audio.chunk, with its base64, in the order of receipt; empty chunks give *)
(* none.                                                                    *)
C26_LiveAudioChunks ==
    \A r \in Slots :
        (~audio[r].mock /\ audio[r].resp.have) =>
            /\ ~StartsWith(audio[r].resp.ct, AudioPrefix) =>
                   /\ audio[r].pos = "raised"
                   /\ audio[r].recv = <<>>
                   /\ Count(wire[r], {"audio.chunk"}) = 0
            /\ ChunkFrames(wire[r]) =
                   [k \in 1..Len(NonEmpty(audio[r].recv)) |->
                        to_sse("audio.chunk", [b64 |-> b64encode(NonEmpty(audio[r].recv)[k])])]

C26_Witness ==
    \E r \in Slots :
        /\ ~audio[r].mock
        /\ audio[r].pos = "closed"
        /\ StartsWith(audio[r].resp.ct, AudioPrefix)
        /\ Len(NonEmpty(audio[r].recv)) = 2
        /\ audio[r].recv[1] # audio[r].recv[2]
        /\ Count(wire[r], {"audio.chunk"}) = 2

----------------------------------------------------------------------------
(* Properties of the history of a request *)

(* the history inside the conversation of slot r: what is between the       *)
(* system message, if there is one, and the closing user message            *)
HistoryUsed(r) ==
    LET c == conversation[r]
        first == IF c[1].role = "system" THEN 2 ELSE 1
    IN  SubSeq(c, first, Len(c) - 1)

(* C27: when a request carries inline messages, then before its stream      *)
(* starts the record of its key holds the inline messages cut to the most   *)
(* recent 2 * max_rounds, and the history in the conversation is the        *)
(* sequence stored for the key.                                             *)
C27_InlinePrecedence ==
    \A r \in Slots :
        (pc[r] = "ready" /\ Len(req[r].body.messages) > 0) =>
            /\ KeyOf(req[r]) \in DOMAIN store
            /\ store[KeyOf(req[r])].messages = LastN(req[r].body.messages, 2 * max_rounds)
            /\ HistoryUsed(r) = store[KeyOf(req[r])].messages

(* the history of a key that a reader would get at time t *)
Visible(st, key, t) ==
    IF key \in DOMAIN st /\ ~_is_expired(st[key].ts, t, ttl_seconds)
    THEN st[key].messages ELSE <<>>

(* the step is the handler of a new request in slot r *)
HandlerStep(r) == req'[r].request_id # req[r].request_id

Succeeded(r) ==
    /\ pc[r] = "done"
    /\ Count(wire[r], {"response.error"}) = 0
    /\ wire[r][Len(wire[r])].event = "response.completed"

Min(a, b) == IF a <= b THEN a ELSE b

Gone(r) == pc[r] \in {"abandoned", "cancelled"}

(* C31: once the consumer has stopped pulling, before the stream was        *)
(* exhausted, the request writes no further frame (no response.error, no    *)
(* response.completed), takes no further event from the text source or the  *)
(* audio source, and does not append to the session cache: whether or not   *)
(* the abandoned generator is closed, the wire, the sources, the store and  *)
(* the number of appends stay as they were when the consumer left.          *)
C31_NothingAfterDisconnect ==
    [][\A r \in Slots :
          (Gone(r) /\ ~HandlerStep(r)) =>
              /\ Gone(r)'
              /\ wire'[r] = wire[r]
              /\ stream'[r] = stream[r]
              /\ audio'[r] = audio[r]
              /\ appended'[r] = appended[r]
              /\ store' = store]_vars

C31_Witness ==
    \E r \in Slots :
        /\ pc[r] = "cancelled"
        /\ Count(wire[r], {"content.delta"}) > 0
        /\ Count(wire[r], Terminals) = 0
        /\ appended[r] = 0
        /\ KeyOf(req[r]) \notin DOMAIN store

====
